---- MODULE Spec2Model ----
(***************************************************************************)
(* Model of the real-time broadcasting layer of proximity-service          *)
(* (src/src/index.ts, lines 180-296): the process-wide `channels` map, the *)
(* three HTTP handlers that read and write it, and the ReadableStream      *)
(* callbacks (`start`, `cancel`) of every subscriber connection.           *)
(*                                                                         *)
(* JavaScript runs each handler to completion on one thread: the only      *)
(* `await` of the broadcast handler (line 209) precedes every access to    *)
(* `channels`, the stream handler has none, and the `start` and `cancel`   *)
(* callbacks are called synchronously by the stream.  Each handler is      *)
(* therefore one action.                                                   *)
(*                                                                         *)
(* Platform facts the model takes from the WHATWG Streams standard:        *)
(*   - `start(controller)` runs inside `new ReadableStream(...)`;          *)
(*   - cancelling a stream first moves it to the state "closed" and then   *)
(*     calls the source's `cancel(reason)` once, with the REASON the       *)
(*     consumer gave (never with the controller);                          *)
(*   - `controller.enqueue(chunk)` throws exactly when the stream is not   *)
(*     "readable"; it never blocks and never fails on a slow reader.       *)
(***************************************************************************)
EXTENDS Integers, Sequences, FiniteSets, TLC

\* ------------------------------------------------------------------ bounds
\* MaxConns streams are opened and MaxPublishes publishes handled in a run.
MaxConns == 2
MaxPublishes == 2

ChannelIds == {"c1", "c2"}
ProfileIds == {"p1"}
Lats == {0, 52}
Lngs == {0, 13}
Metadatas == {"none"}

Controllers == 1..MaxConns
SetRefs == 1..MaxConns

VARIABLES
    channels,       \* the Map<string, Set>: entries [key, value] in insertion order
    sets,           \* heap of Set objects: ref -> list of members in insertion order
    nextSet,        \* number of Set objects allocated so far
    nextConn,       \* number of streams opened so far
    streamState,    \* controller -> "unborn" | "readable" | "closed"
    closureSubs,    \* controller -> the Set its stream's callbacks closed over
    closureChannel, \* controller -> the channelId its stream's callbacks closed over
    queue,          \* controller -> the chunks enqueued on its stream, in order
    clock,          \* the instant `new Date()` returns to the next publish
    pushed,         \* the controllers the last step called enqueue on, in call order
    lastResp,       \* the response the last step returned
    handlers,       \* publish handler -> its position and its local variables
    running,        \* the publish handler on the call stack, NoHandler when none
    request,        \* the request a stateless endpoint is answering
    response        \* the response of the stateless endpoint

vars == <<channels, sets, nextSet, nextConn, streamState, closureSubs,
          closureChannel, queue, clock, pushed, lastResp, handlers, running,
          request, response>>

\* ------------------------------------------------------------------ values
\* JavaScript values that can be a member of a Set or an argument of delete.
Ctl(i) == [kind |-> "controller", id |-> i]
Undefined == [kind |-> "undefined", id |-> 0]
ErrorObj == [kind |-> "error", id |-> 0]
Empty == [kind |-> "empty", id |-> 0]
NoRef == 0

\* The reasons a consumer can cancel a stream with: none, or an error.
Reasons == {Undefined, ErrorObj}

\* ------------------------------------------------------------------ Map
MapHas(m, k) == \E i \in 1..Len(m) : m[i].key = k
MapGet(m, k) ==
    IF MapHas(m, k) THEN m[CHOOSE i \in 1..Len(m) : m[i].key = k].value ELSE NoRef
MapSet(m, k, v) ==
    IF MapHas(m, k)
    THEN [i \in 1..Len(m) |-> IF m[i].key = k THEN [key |-> k, value |-> v] ELSE m[i]]
    ELSE Append(m, [key |-> k, value |-> v])
MapDelete(m, k) == SelectSeq(m, LAMBDA e : e.key # k)

\* ------------------------------------------------------------------ Set
\* A Set is its list of entries in insertion order.  During an iteration a
\* deleted entry is replaced by Empty, so that the positions of the other
\* entries are kept; SetCompact drops the Empty entries once no iterator is
\* live.
SetCompact(data) == SelectSeq(data, LAMBDA e : e # Empty)
SetHas(data, v) == \E i \in 1..Len(data) : data[i] = v
SetSize(data) == Len(SetCompact(data))
SetAdd(data, v) == IF SetHas(data, v) THEN data ELSE Append(data, v)
\* Mutant: delete by splicing the entry out, which shifts the later entries
\* under a live iterator.
SetDelete_splice(data, v) == SelectSeq(data, LAMBDA e : e # v)
SetDelete(data, v) == [i \in 1..Len(data) |-> IF data[i] = v THEN Empty ELSE data[i]]
SetMembers(data) == {data[i] : i \in 1..Len(data)} \ {Empty}

\* ------------------------------------------------------- requests, responses
NoLocation == <<>>
Location(lat, lng) == <<[lat |-> lat, lng |-> lng]>>
Locations == {NoLocation} \cup {Location(lat, lng) : lat \in Lats, lng \in Lngs}

\* A request body of POST /api/proximity/broadcast.  A missing string field
\* is "", a missing location is NoLocation, a missing metadata is "none".
Bodies ==
    [channelId : ChannelIds \cup {""}, profileId : ProfileIds \cup {""},
     location : Locations, metadata : Metadatas]

Resp(status, error, published, channelId, subscriberCount, list, stream) ==
    [status |-> status, error |-> error, published |-> published,
     channelId |-> channelId, subscriberCount |-> subscriberCount,
     channels |-> list, total |-> Len(list), stream |-> stream]
NoResp == Resp(0, "", FALSE, "", 0, <<>>, 0)

\* A chunk `event: <name>\ndata: <json>\n\n`: the event name and the fields of
\* the JSON payload (a field the payload does not carry has its default).
Chunk(event, channelId, subscriberCount, profileId, location, timestamp, metadata) ==
    [event |-> event, channelId |-> channelId, subscriberCount |-> subscriberCount,
     profileId |-> profileId, location |-> location, timestamp |-> timestamp,
     metadata |-> metadata]

\* ------------------------------------------------------- channel registry
\* Mutant: the function allocates and registers a new Set on every call.
getOrCreateChannel_alwaysNew(chs, hp, next, channelId) ==
    [channels |-> MapSet(chs, channelId, next + 1),
     sets |-> [hp EXCEPT ![next + 1] = <<>>],
     nextSet |-> next + 1, subs |-> next + 1]

\* getOrCreateChannel: the registry and heap after the call, and the Set it
\* returns.  A Set object is truthy even when empty: only an absent entry
\* makes the function allocate.
getOrCreateChannel(chs, hp, next, channelId) ==
    IF MapHas(chs, channelId)
    THEN [channels |-> chs, sets |-> hp, nextSet |-> next, subs |-> MapGet(chs, channelId)]
    ELSE [channels |-> MapSet(chs, channelId, next + 1),
          sets |-> [hp EXCEPT ![next + 1] = <<>>],
          nextSet |-> next + 1, subs |-> next + 1]

\* Mutant: the publisher takes the first Set of the registry, whatever its id.
lookup_anyChannel(chs, hp, next, channelId) ==
    [channels |-> chs, sets |-> hp, nextSet |-> next,
     subs |-> IF Len(chs) > 0 THEN chs[1].value ELSE NoRef]

\* Mutant: the publisher looks the channel up with getOrCreateChannel.
lookup_creating(chs, hp, next, channelId) == getOrCreateChannel(chs, hp, next, channelId)

\* channels.get(body.channelId): a read, the registry is left as it is.
lookup(chs, hp, next, channelId) ==
    [channels |-> chs, sets |-> hp, nextSet |-> next, subs |-> MapGet(chs, channelId)]

\* ------------------------------------------------------- POST /broadcast
\* JavaScript truthiness of the validated fields.
truthyString(s) == s # ""
truthyNumber(n) == n # 0

\* Mutant: the first check forgets profileId.
channelAndProfilePresent_channelOnly(body) == truthyString(body.channelId)

channelAndProfilePresent(body) ==
    truthyString(body.channelId) /\ truthyString(body.profileId)
locationHasLatLng(body) ==
    /\ body.location # NoLocation
    /\ truthyNumber(body.location[1].lat)
    /\ truthyNumber(body.location[1].lng)

\* Mutant: enqueue also throws on a stream with two chunks unread.
enqueueThrows_whenBacklogged(c) ==
    streamState[c] # "readable" \/ Len(queue[c]) >= 2

\* controller.enqueue(chunk) throws exactly when the stream is not readable.
enqueueThrows(c) == streamState[c] # "readable"

\* Mutant: the chunk is put in front of the chunks not yet read.
enqueue_prepend(q, c, chunk) == [q EXCEPT ![c] = <<chunk>> \o @]

\* controller.enqueue(chunk) on a readable stream: the chunk joins the end of
\* the stream's queue.
enqueue(q, c, chunk) == [q EXCEPT ![c] = Append(@, chunk)]

\* Mutant: the count is the number of subscribers that can take the push.
subscriberCountOf_live(hp, subs) ==
    IF subs = NoRef THEN 0
    ELSE Cardinality({m \in SetMembers(hp[subs]) : ~enqueueThrows(m.id)})

\* subs?.size ?? 0
subscriberCountOf(hp, subs) == IF subs = NoRef THEN 0 ELSE SetSize(hp[subs])

\* Mutant: the event is encoded anew, with a fresh timestamp, for each push.
RECURSIVE fanOut_reencode(_, _, _, _)
fanOut_reencode(data, i, q, encoded) ==
    IF i > Len(data)
    THEN [data |-> data, queue |-> q, pushed |-> <<>>, threw |-> FALSE]
    ELSE IF data[i] = Empty THEN fanOut_reencode(data, i + 1, q, encoded)
    ELSE LET controller == data[i]
             fresh == [encoded EXCEPT !.timestamp = @ + i - 1]
             rest == IF enqueueThrows(controller.id)
                     THEN fanOut_reencode(SetDelete(data, controller), i + 1, q,
                                          encoded)
                     ELSE fanOut_reencode(data, i + 1,
                                          enqueue(q, controller.id, fresh), encoded)
         IN  [rest EXCEPT !.pushed = <<controller.id>> \o @]

\* Mutant: no try/catch around the push, the first throw leaves the handler.
RECURSIVE fanOut_noCatch(_, _, _, _)
fanOut_noCatch(data, i, q, encoded) ==
    IF i > Len(data)
    THEN [data |-> data, queue |-> q, pushed |-> <<>>, threw |-> FALSE]
    ELSE IF data[i] = Empty THEN fanOut_noCatch(data, i + 1, q, encoded)
    ELSE LET controller == data[i]
             rest == IF enqueueThrows(controller.id)
                     THEN [data |-> data, queue |-> q, pushed |-> <<>>,
                           threw |-> TRUE]
                     ELSE fanOut_noCatch(data, i + 1,
                                         enqueue(q, controller.id, encoded), encoded)
         IN  [rest EXCEPT !.pushed = <<controller.id>> \o @]

\* Mutant: a controller is removed from the Set once it has been pushed to.
RECURSIVE fanOut_dropDelivered(_, _, _, _)
fanOut_dropDelivered(data, i, q, encoded) ==
    IF i > Len(data)
    THEN [data |-> data, queue |-> q, pushed |-> <<>>, threw |-> FALSE]
    ELSE IF data[i] = Empty THEN fanOut_dropDelivered(data, i + 1, q, encoded)
    ELSE LET controller == data[i]
             rest == IF enqueueThrows(controller.id)
                     THEN fanOut_dropDelivered(SetDelete(data, controller), i + 1,
                                               q, encoded)
                     ELSE fanOut_dropDelivered(SetDelete(data, controller), i + 1,
                                               enqueue(q, controller.id, encoded),
                                               encoded)
         IN  [rest EXCEPT !.pushed = <<controller.id>> \o @]

\* Mutant: the first failing push ends the loop.
RECURSIVE fanOut_abortOnFailure(_, _, _, _)
fanOut_abortOnFailure(data, i, q, encoded) ==
    IF i > Len(data)
    THEN [data |-> data, queue |-> q, pushed |-> <<>>, threw |-> FALSE]
    ELSE IF data[i] = Empty THEN fanOut_abortOnFailure(data, i + 1, q, encoded)
    ELSE LET controller == data[i]
             rest == IF enqueueThrows(controller.id)
                     THEN [data |-> SetDelete(data, controller), queue |-> q,
                           pushed |-> <<>>, threw |-> FALSE]
                     ELSE fanOut_abortOnFailure(data, i + 1,
                                                enqueue(q, controller.id, encoded),
                                                encoded)
         IN  [rest EXCEPT !.pushed = <<controller.id>> \o @]

\* Mutant: after a deletion the loop starts over from the first entry.
RECURSIVE fanOut_restart(_, _, _, _)
fanOut_restart(data, i, q, encoded) ==
    IF i > Len(data)
    THEN [data |-> data, queue |-> q, pushed |-> <<>>, threw |-> FALSE]
    ELSE IF data[i] = Empty THEN fanOut_restart(data, i + 1, q, encoded)
    ELSE LET controller == data[i]
             rest == IF enqueueThrows(controller.id)
                     THEN fanOut_restart(SetDelete(data, controller), 1, q, encoded)
                     ELSE fanOut_restart(data, i + 1,
                                         enqueue(q, controller.id, encoded), encoded)
         IN  [rest EXCEPT !.pushed = <<controller.id>> \o @]

\* for (const controller of subs) { try enqueue catch delete }: the Set and the
\* streams after the loop, the controllers enqueue was called on, and whether
\* an exception left the loop (the catch lets none through).
RECURSIVE fanOut(_, _, _, _)
fanOut(data, i, q, encoded) ==
    IF i > Len(data)
    THEN [data |-> data, queue |-> q, pushed |-> <<>>, threw |-> FALSE]
    ELSE IF data[i] = Empty THEN fanOut(data, i + 1, q, encoded)
    ELSE LET controller == data[i]
             rest == IF enqueueThrows(controller.id)
                     THEN fanOut(SetDelete(data, controller), i + 1, q, encoded)
                     ELSE fanOut(data, i + 1, enqueue(q, controller.id, encoded),
                                 encoded)
         IN  [rest EXCEPT !.pushed = <<controller.id>> \o @]

Broadcast(body) ==
    /\ clock < MaxPublishes
    /\ IF ~channelAndProfilePresent(body)
       THEN /\ lastResp' = Resp(400, "channelId and profileId are required",
                                FALSE, "", 0, <<>>, 0)
            /\ pushed' = <<>>
            /\ UNCHANGED <<channels, sets, nextSet, queue, clock>>
       ELSE IF ~locationHasLatLng(body)
       THEN /\ lastResp' = Resp(400, "location must have lat and lng",
                                FALSE, "", 0, <<>>, 0)
            /\ pushed' = <<>>
            /\ UNCHANGED <<channels, sets, nextSet, queue, clock>>
       ELSE LET look == lookup(channels, sets, nextSet, body.channelId)
                subs == look.subs
                subscriberCount == subscriberCountOf(look.sets, subs)
                encoded == Chunk("position", "", 0, body.profileId, body.location,
                                 clock, body.metadata)
                out == IF subs # NoRef /\ SetSize(look.sets[subs]) > 0
                       THEN fanOut(look.sets[subs], 1, queue, encoded)
                       ELSE [data |-> <<>>, queue |-> queue, pushed |-> <<>>,
                             threw |-> FALSE]
            IN  /\ channels' = look.channels
                /\ nextSet' = look.nextSet
                /\ sets' = IF subs # NoRef /\ SetSize(look.sets[subs]) > 0
                           THEN [look.sets EXCEPT ![subs] = SetCompact(out.data)]
                           ELSE look.sets
                /\ queue' = out.queue
                /\ pushed' = out.pushed
                /\ clock' = clock + 1
                /\ lastResp' = IF out.threw
                               THEN Resp(500, "Internal Server Error", FALSE, "", 0,
                                         <<>>, 0)
                               ELSE Resp(200, "", TRUE, body.channelId,
                                         subscriberCount, <<>>, 0)
    /\ UNCHANGED <<nextConn, streamState, closureSubs, closureChannel>>
    /\ UNCHANGED <<handlers, running, request, response>>

\* ------------------------------------------------------- GET /stream/:channelId
\* Mutant: the welcome chunk is built before the controller is added.
start_welcomeFirst(data, q, c, channelId) ==
    LET welcomeMsg == Chunk("connected", channelId, SetSize(data), "", NoLocation,
                            clock, "none")
    IN  [data |-> SetAdd(data, Ctl(c)), queue |-> enqueue(q, c, welcomeMsg)]

\* Mutant: start also replays the last published event to the new stream.
start_replayLast(data, q, c, channelId) ==
    LET added == SetAdd(data, Ctl(c))
        welcomeMsg == Chunk("connected", channelId, SetSize(added), "", NoLocation,
                            clock, "none")
        last == Chunk("position", "", 0, CHOOSE p \in ProfileIds : TRUE,
                      Location(52, 13), clock - 1, "none")
        welcomed == enqueue(q, c, welcomeMsg)
    IN  [data |-> added,
         queue |-> IF clock > 0 THEN enqueue(welcomed, c, last) ELSE welcomed]

\* start(controller): the Set after subs.add and the stream's queue after the
\* welcome chunk.
start(data, q, c, channelId) ==
    LET added == SetAdd(data, Ctl(c))
        welcomeMsg == Chunk("connected", channelId, SetSize(added), "", NoLocation,
                            clock, "none")
    IN  [data |-> added, queue |-> enqueue(q, c, welcomeMsg)]

Stream(channelId) ==
    /\ nextConn < MaxConns
    /\ LET c == nextConn + 1
           got == getOrCreateChannel(channels, sets, nextSet, channelId)
           st == start(got.sets[got.subs], queue, c, channelId)
       IN  /\ nextConn' = c
           /\ channels' = got.channels
           /\ nextSet' = got.nextSet
           /\ sets' = [got.sets EXCEPT ![got.subs] = st.data]
           /\ streamState' = [streamState EXCEPT ![c] = "readable"]
           /\ closureSubs' = [closureSubs EXCEPT ![c] = got.subs]
           /\ closureChannel' = [closureChannel EXCEPT ![c] = channelId]
           /\ queue' = st.queue
           /\ pushed' = <<c>>
           /\ lastResp' = Resp(200, "", FALSE, "", 0, <<>>, c)
    /\ UNCHANGED <<clock, handlers, running, request, response>>

\* Mutant: cancel deletes the channel without looking at the size of the Set.
cancel_alwaysDelete(chs, hp, c, arg) ==
    LET subs == closureSubs[c]
        data == SetCompact(SetDelete(hp[subs], arg))
    IN  [sets |-> [hp EXCEPT ![subs] = data],
         channels |-> MapDelete(chs, closureChannel[c])]

\* cancel(controller) of the stream of connection c, called with `arg`:
\* subs.delete(arg); if (subs.size === 0) channels.delete(channelId).
cancel(chs, hp, c, arg) ==
    LET subs == closureSubs[c]
        data == SetCompact(SetDelete(hp[subs], arg))
    IN  [sets |-> [hp EXCEPT ![subs] = data],
         channels |-> IF SetSize(data) = 0 THEN MapDelete(chs, closureChannel[c])
                      ELSE chs]

\* The consumer of connection c cancels its stream (client disconnect,
\* transport error or abort): the stream closes and calls the source's cancel
\* with the consumer's reason.
Cancel(c, reason) ==
    /\ streamState[c] = "readable"
    /\ streamState' = [streamState EXCEPT ![c] = "closed"]
    /\ LET done == cancel(channels, sets, c, reason)
       IN  /\ channels' = done.channels
           /\ sets' = done.sets
    /\ lastResp' = NoResp
    /\ pushed' = <<>>
    /\ UNCHANGED <<nextSet, nextConn, closureSubs, closureChannel, queue, clock>>
    /\ UNCHANGED <<handlers, running, request, response>>

\* ------------------------------------------------------- GET /channels
\* Mutant: channels without subscribers are left out of the list.
channelList_skipEmpty(chs, hp) ==
    LET kept == SelectSeq(chs, LAMBDA e : SetSize(hp[e.value]) > 0)
    IN  [i \in 1..Len(kept) |->
            [channelId |-> kept[i].key,
             subscriberCount |-> SetSize(hp[kept[i].value])]]

channelList(chs, hp) ==
    [i \in 1..Len(chs) |->
        [channelId |-> chs[i].key, subscriberCount |-> SetSize(hp[chs[i].value])]]

Channels ==
    /\ lastResp' = Resp(200, "", FALSE, "", 0, channelList(channels, sets), 0)
    /\ pushed' = <<>>
    /\ UNCHANGED <<channels, sets, nextSet, nextConn, streamState, closureSubs,
                   closureChannel, queue, clock>>
    /\ UNCHANGED <<handlers, running, request, response>>

\* ------------------------------------------------------- handler instances
\* The instances of the publish handler a run starts, and the local variables
\* of one of them: its position, the parsed body, the Set found under the
\* channel id, the size read at line 232, the iterator's position, the encoded
\* event, and the controllers enqueue was called on so far.
Handlers == 1..MaxPublishes
NoHandler == 0

IdleHandler ==
    [pc |-> "idle",
     body |-> [channelId |-> "", profileId |-> "", location |-> NoLocation,
               metadata |-> "none"],
     subs |-> NoRef, subscriberCount |-> 0, i |-> 0,
     encoded |-> Chunk("", "", 0, "", NoLocation, 0, "none"),
     attempts |-> <<>>,
     entry |-> [channels |-> <<>>, sets |-> <<>>, queue |-> <<>>]]

\* ------------------------------------------------------- publish, step by step
\* The publish handler at the grain of its statements.  The handler is on the
\* call stack from the continuation of its one await (line 209) to its
\* return; the runtime starts no other handler or callback while a handler is
\* on the stack.
\* The publishes go to one channel, with and without a location; streams are
\* opened on every channel.
StepChannel == "c1"
StepBodies ==
    [channelId : {StepChannel}, profileId : ProfileIds,
     location : {NoLocation, Location(52, 13)}, metadata : Metadatas]

\* Mutant: the loop body awaits, which takes the handler off the stack.
LoopYields_await == TRUE
\* The loop body (lines 238-244) has no await.
LoopYields == FALSE

OnStack(h) == running = h \/ (LoopYields /\ running = NoHandler)

\* The position of the first entry at or after position i, 0 when none.
nextEntry(data, i) ==
    IF \E j \in i..Len(data) : data[j] # Empty
    THEN CHOOSE j \in i..Len(data) :
            /\ data[j] # Empty
            /\ \A k \in i..(j - 1) : data[k] = Empty
    ELSE 0

\* Mutant: a failed push is tried again until it succeeds.
iterate_retry(hp, q, hd) ==
    LET data == hp[hd.subs]
        idx == nextEntry(data, hd.i)
        controller == data[idx]
    IN  IF enqueueThrows(controller.id)
        THEN [sets |-> hp, queue |-> q, handler |-> hd]
        ELSE [sets |-> hp,
              queue |-> enqueue(q, controller.id, hd.encoded),
              handler |-> [hd EXCEPT !.i = idx + 1,
                                     !.attempts = Append(@, controller.id)]]

\* One iteration of the for-of loop (lines 238-244) of handler record hd.
iterate(hp, q, hd) ==
    LET data == hp[hd.subs]
        idx == nextEntry(data, hd.i)
        controller == data[idx]
        after == [hd EXCEPT !.i = idx + 1, !.attempts = Append(@, controller.id)]
    IN  IF enqueueThrows(controller.id)
        THEN [sets |-> [hp EXCEPT ![hd.subs] = SetDelete(data, controller)],
              queue |-> q, handler |-> after]
        ELSE [sets |-> hp, queue |-> enqueue(q, controller.id, hd.encoded),
              handler |-> after]

\* The request arrives and its body is read (line 209): the continuation of
\* the await is ready to run.
Receive(h, body) ==
    /\ running = NoHandler
    /\ handlers[h].pc = "idle"
    /\ \A g \in 1..(h - 1) : handlers[g].pc # "idle"
    /\ handlers' = [handlers EXCEPT ![h] = [IdleHandler EXCEPT !.pc = "received",
                                                                !.body = body]]
    /\ UNCHANGED <<channels, sets, nextSet, nextConn, streamState, closureSubs,
                   closureChannel, queue, clock, pushed, lastResp, running,
                   request, response>>

\* Lines 216-232: validation, the event, the lookup and the count.
Resume(h) ==
    LET body == handlers[h].body
        finished == [IdleHandler EXCEPT !.pc = "done"]
    IN
    /\ running = NoHandler
    /\ handlers[h].pc = "received"
    /\ IF ~channelAndProfilePresent(body)
       THEN /\ lastResp' = Resp(400, "channelId and profileId are required",
                                FALSE, "", 0, <<>>, 0)
            /\ pushed' = <<>>
            /\ handlers' = [handlers EXCEPT ![h] = finished]
            /\ UNCHANGED <<channels, sets, nextSet, clock, running>>
       ELSE IF ~locationHasLatLng(body)
       THEN /\ lastResp' = Resp(400, "location must have lat and lng",
                                FALSE, "", 0, <<>>, 0)
            /\ pushed' = <<>>
            /\ handlers' = [handlers EXCEPT ![h] = finished]
            /\ UNCHANGED <<channels, sets, nextSet, clock, running>>
       ELSE LET look == lookup(channels, sets, nextSet, body.channelId)
            IN  /\ channels' = look.channels
                /\ sets' = look.sets
                /\ nextSet' = look.nextSet
                /\ clock' = clock + 1
                /\ running' = h
                /\ handlers' = [handlers EXCEPT ![h] =
                       [pc |-> "loop", body |-> body, subs |-> look.subs,
                        subscriberCount |->
                            subscriberCountOf(look.sets, look.subs),
                        i |-> 1,
                        encoded |-> Chunk("position", "", 0, body.profileId,
                                          body.location, clock, body.metadata),
                        attempts |-> <<>>,
                        entry |-> [channels |-> look.channels,
                                   sets |-> look.sets, queue |-> queue]]]
                /\ UNCHANGED <<pushed, lastResp>>
    /\ UNCHANGED <<nextConn, streamState, closureSubs, closureChannel, queue,
                   request, response>>

\* Lines 238-244: the push to the next entry of the Set.
LoopStep(h) ==
    /\ handlers[h].pc = "loop"
    /\ OnStack(h)
    /\ handlers[h].subs # NoRef
    /\ nextEntry(sets[handlers[h].subs], handlers[h].i) # 0
    /\ LET out == iterate(sets, queue, handlers[h])
       IN  /\ sets' = out.sets
           /\ queue' = out.queue
           /\ handlers' = [handlers EXCEPT ![h] = out.handler]
    /\ running' = IF LoopYields THEN NoHandler ELSE h
    /\ UNCHANGED <<channels, nextSet, nextConn, streamState, closureSubs,
                   closureChannel, clock, pushed, lastResp, request, response>>

\* Lines 247-251: the iterator is exhausted (or the Set was absent or
\* empty) and the handler returns its response.
Respond(h) ==
    LET hd == handlers[h]
    IN
    /\ hd.pc = "loop"
    /\ OnStack(h)
    /\ IF hd.subs = NoRef THEN TRUE ELSE nextEntry(sets[hd.subs], hd.i) = 0
    /\ sets' = IF hd.subs = NoRef THEN sets
               ELSE [sets EXCEPT ![hd.subs] = SetCompact(@)]
    /\ lastResp' = Resp(200, "", TRUE, hd.body.channelId, hd.subscriberCount,
                        <<>>, 0)
    /\ pushed' = hd.attempts
    /\ handlers' = [handlers EXCEPT ![h] = [IdleHandler EXCEPT !.pc = "done"]]
    /\ running' = NoHandler
    /\ UNCHANGED <<channels, nextSet, nextConn, streamState, closureSubs,
                   closureChannel, queue, clock, request, response>>

\* ------------------------------------------------------- stateless endpoints
NoRequest == [endpoint |-> "none"]
NoResponse == [status |-> 0]

\* An optional member of a JSON body: Omitted, or Given(v).
Omitted == <<>>
Given(v) == <<v>>

\* ------------------------------------------------------- consent (domain)
\* What `new Date().toISOString()` returns, and an earlier such instant.  A
\* LocationConsent without revokedAt has revokedAt = "".
Now == "2026-01-02T00:00:00.000Z"
Earlier == "2026-01-01T00:00:00.000Z"

ConsentRecords ==
    [profileId : {"p1"}, locationTracking : BOOLEAN, bleDiscovery : BOOLEAN,
     grantedAt : {Earlier}, revokedAt : {"", Earlier}]

\* Mutant: an omitted flag defaults to true.
createConsent_defaultTrue(profileId, opts) ==
    [profileId |-> profileId,
     locationTracking |-> IF opts.locationTracking = Omitted THEN TRUE
                          ELSE opts.locationTracking[1],
     bleDiscovery |-> IF opts.bleDiscovery = Omitted THEN TRUE
                      ELSE opts.bleDiscovery[1],
     grantedAt |-> Now, revokedAt |-> ""]

createConsent(profileId, opts) ==
    [profileId |-> profileId,
     locationTracking |-> IF opts.locationTracking = Omitted THEN FALSE
                          ELSE opts.locationTracking[1],
     bleDiscovery |-> IF opts.bleDiscovery = Omitted THEN FALSE
                      ELSE opts.bleDiscovery[1],
     grantedAt |-> Now, revokedAt |-> ""]

\* isConsentValid(consent) of an optional consent (Omitted is null).
isConsentValid(consent) ==
    IF consent = Omitted THEN FALSE
    ELSE IF truthyString(consent[1].revokedAt) THEN FALSE
    ELSE consent[1].locationTracking \/ consent[1].bleDiscovery

\* Mutant: revocation clears the flags and sets no revokedAt.
revokeConsent_flagsOnly(consent) ==
    [consent EXCEPT !.locationTracking = FALSE, !.bleDiscovery = FALSE]

revokeConsent(consent) ==
    [consent EXCEPT !.locationTracking = FALSE, !.bleDiscovery = FALSE,
                    !.revokedAt = Now]

\* ------------------------------------------------------- POST /consent
ConsentActions == {"create", "validate", "revoke", "delete", ""}
Flags == {Omitted, Given(TRUE), Given(FALSE)}

ConsentRequests ==
    [endpoint : {"consent"}, action : ConsentActions, profileId : {"", "p1"},
     locationTracking : Flags, bleDiscovery : Flags,
     consent : {Omitted} \cup {Given(r) : r \in ConsentRecords}]

ConsentResponse(status, error, valid, consent) ==
    [status |-> status, error |-> error, valid |-> valid, consent |-> consent]

\* Mutant: the revoke branch does not check that a consent was sent.
consentHandler_revokeUnchecked(body) ==
    CASE body.action = "create" ->
            IF ~truthyString(body.profileId)
            THEN ConsentResponse(400, "profileId is required", FALSE, Omitted)
            ELSE LET consent == createConsent(body.profileId,
                                    [locationTracking |-> body.locationTracking,
                                     bleDiscovery |-> body.bleDiscovery])
                 IN  ConsentResponse(200, "", isConsentValid(Given(consent)),
                                     Given(consent))
      [] body.action = "validate" ->
            IF body.consent = Omitted
            THEN ConsentResponse(400, "consent object is required for validation",
                                 FALSE, Omitted)
            ELSE ConsentResponse(200, "", isConsentValid(body.consent),
                                 body.consent)
      [] body.action = "revoke" ->
            ConsentResponse(200, "", FALSE, body.consent)
      [] OTHER ->
            ConsentResponse(400, "action must be create, validate, or revoke",
                            FALSE, Omitted)

\* The switch of the handler (lines 148-177).
consentHandler(body) ==
    CASE body.action = "create" ->
            IF ~truthyString(body.profileId)
            THEN ConsentResponse(400, "profileId is required", FALSE, Omitted)
            ELSE LET consent == createConsent(body.profileId,
                                    [locationTracking |-> body.locationTracking,
                                     bleDiscovery |-> body.bleDiscovery])
                 IN  ConsentResponse(200, "", isConsentValid(Given(consent)),
                                     Given(consent))
      [] body.action = "validate" ->
            IF body.consent = Omitted
            THEN ConsentResponse(400, "consent object is required for validation",
                                 FALSE, Omitted)
            ELSE ConsentResponse(200, "", isConsentValid(body.consent),
                                 body.consent)
      [] body.action = "revoke" ->
            IF body.consent = Omitted
            THEN ConsentResponse(400, "consent object is required for revocation",
                                 FALSE, Omitted)
            ELSE ConsentResponse(200, "", FALSE,
                                 Given(revokeConsent(body.consent[1])))
      [] OTHER ->
            ConsentResponse(400, "action must be create, validate, or revoke",
                            FALSE, Omitted)

Consent ==
    /\ request.endpoint = "consent"
    /\ response = NoResponse
    /\ response' = consentHandler(request)
    /\ UNCHANGED <<channels, sets, nextSet, nextConn, streamState, closureSubs,
                   closureChannel, queue, clock, pushed, lastResp, handlers,
                   running, request>>

\* ------------------------------------------------------- specification
\* The process after start-up: no channel, no stream, no publish handler
\* started.
InitLayer ==
    /\ channels = <<>>
    /\ sets = [r \in SetRefs |-> <<>>]
    /\ nextSet = 0
    /\ nextConn = 0
    /\ streamState = [c \in Controllers |-> "unborn"]
    /\ closureSubs = [c \in Controllers |-> NoRef]
    /\ closureChannel = [c \in Controllers |-> ""]
    /\ queue = [c \in Controllers |-> <<>>]
    /\ clock = 0
    /\ pushed = <<>>
    /\ lastResp = NoResp
    /\ handlers = [h \in Handlers |-> IdleHandler]
    /\ running = NoHandler

Init ==
    /\ InitLayer
    /\ request = NoRequest
    /\ response = NoResponse

Next ==
    \/ \E body \in Bodies : Broadcast(body)
    \/ \E channelId \in ChannelIds : Stream(channelId)
    \/ \E c \in Controllers, reason \in Reasons : Cancel(c, reason)
    \/ Channels

Spec == Init /\ [][Next]_vars

\* ------------------------------------------------------- step specification
\* Concurrent requests with the publish handler taken statement by statement.
\* The other handlers and callbacks have no await and start only when no
\* handler is on the stack.  The runtime runs every ready continuation and
\* every started handler on, which is the fairness assumed.
NextSteps ==
    \/ \E h \in Handlers, body \in StepBodies : Receive(h, body)
    \/ \E h \in Handlers : Resume(h)
    \/ \E h \in Handlers : LoopStep(h)
    \/ \E h \in Handlers : Respond(h)
    \/ running = NoHandler /\ \E channelId \in ChannelIds : Stream(channelId)
    \/ running = NoHandler /\ \E c \in Controllers, reason \in Reasons : Cancel(c, reason)
    \/ running = NoHandler /\ Channels

SpecSteps ==
    /\ Init
    /\ [][NextSteps]_vars
    /\ \A h \in Handlers :
          WF_vars(Resume(h)) /\ WF_vars(LoopStep(h)) /\ WF_vars(Respond(h))

\* ------------------------------------------------------- distance (domain)
\* Coordinates are integers, in hundredths of a degree; a member of a GeoPoint
\* is Omitted or Given(n).  Distances are integers, in millimetres, so that
\* Math.round and the comparisons with a range in metres act on a fraction.
GeoPoint(lat, lng) == [lat |-> lat, lng |-> lng]

\* Metres to the unit of distances.
Metres(m) == m * 1000

\* EARTH_RADIUS_METERS * toRadians(0.01), in millimetres (1111.949266 m).
MmPerStep == 1111949

Abs(n) == IF n < 0 THEN 0 - n ELSE n

\* calculateDistance for two points of one meridian, where the haversine
\* formula reduces to EARTH_RADIUS_METERS * |toRadians(to.lat - from.lat)|
\* (a = sin^2(dLat/2), c = 2 atan2(sqrt a, sqrt(1-a)) = |dLat|); it is 0 for
\* equal points.  The model calls it with such points only.
calculateDistance(from, to) ==
    CASE from.lng = to.lng -> MmPerStep * Abs(to.lat[1] - from.lat[1])

\* Math.round of a non-negative distance: the nearest integer of metres,
\* halves upwards.
round(distance) == (distance + 500) \div 1000

DefaultBleRange == 30
DefaultMaxRange == 5000

\* Mutant: the comparisons are strict.
classifyDistance_strict(distanceMeters, bleRange, maxRange) ==
    IF distanceMeters < Metres(bleRange) THEN "nearby"
    ELSE IF distanceMeters < Metres(maxRange) THEN "in_range"
    ELSE "out_of_range"

classifyDistance(distanceMeters, bleRange, maxRange) ==
    IF distanceMeters <= Metres(bleRange) THEN "nearby"
    ELSE IF distanceMeters <= Metres(maxRange) THEN "in_range"
    ELSE "out_of_range"

\* formatDistance: the number printed and its unit; above 1000 m the number
\* is toFixed(1) of the kilometres, kept in tenths.
formatDistance(meters) ==
    IF meters < Metres(1000)
    THEN [value |-> round(meters), unit |-> "m"]
    ELSE [value |-> (meters + Metres(50)) \div Metres(100), unit |-> "km/10"]

\* array.sort((a, b) => a.distanceMeters - b.distanceMeters): a stable sort.
RECURSIVE insertSorted(_, _)
insertSorted(sorted, r) ==
    IF sorted = <<>> THEN <<r>>
    ELSE IF r.distanceMeters < sorted[Len(sorted)].distanceMeters
         THEN Append(insertSorted(SubSeq(sorted, 1, Len(sorted) - 1), r),
                     sorted[Len(sorted)])
         ELSE Append(sorted, r)

RECURSIVE sortByDistance(_)
sortByDistance(records) ==
    IF records = <<>> THEN <<>>
    ELSE insertSorted(sortByDistance(SubSeq(records, 1, Len(records) - 1)),
                      records[Len(records)])

PresenceRecord(myPosition, c, maxRadiusMeters, bleRangeMeters) ==
    LET dist == calculateDistance(myPosition, c.location)
    IN  [profileId |-> c.profileId,
         location |-> c.location,
         distanceMeters |-> round(dist),
         distanceLabel |-> formatDistance(dist),
         status |-> classifyDistance(dist, bleRangeMeters, maxRadiusMeters)]

\* Mutant: the filter compares the distance before rounding.
findNearby_filterUnrounded(myPosition, candidates, maxRadiusMeters, bleRangeMeters) ==
    LET mapped == [i \in 1..Len(candidates) |->
                      PresenceRecord(myPosition, candidates[i], maxRadiusMeters,
                                     bleRangeMeters)]
        kept == SelectSeq(mapped,
                    LAMBDA r : calculateDistance(myPosition, r.location)
                                   <= Metres(maxRadiusMeters))
    IN  sortByDistance(kept)

findNearby(myPosition, candidates, maxRadiusMeters, bleRangeMeters) ==
    LET mapped == [i \in 1..Len(candidates) |->
                      PresenceRecord(myPosition, candidates[i], maxRadiusMeters,
                                     bleRangeMeters)]
        kept == SelectSeq(mapped, LAMBDA r : r.distanceMeters <= maxRadiusMeters)
    IN  sortByDistance(kept)

\* ------------------------------------------------------- POST /calculate
\* `!point?.lat || !point?.lng`: the point or a member is missing, or a
\* member is falsy.
truthyCoord(x) == x # Omitted /\ truthyNumber(x[1])
hasLatLng(point) ==
    /\ point # Omitted
    /\ truthyCoord(point[1].lat)
    /\ truthyCoord(point[1].lng)

CalcLats == {Omitted, Given(0), Given(5200), Given(5203)}
CalcLngs == {Omitted, Given(0), Given(1300)}
CalcPoints ==
    {Omitted} \cup {Given(GeoPoint(lat, lng)) : lat \in CalcLats, lng \in CalcLngs}

CalculateRequests == [endpoint : {"calculate"}, from : CalcPoints, to : CalcPoints]

calculateHandler(body) ==
    IF ~hasLatLng(body.from) \/ ~hasLatLng(body.to)
    THEN [status |-> 400, error |-> "Both from and to must have lat and lng",
          distanceMeters |-> 0, distanceLabel |-> formatDistance(0),
          presence |-> ""]
    ELSE LET distance == calculateDistance(body.from[1], body.to[1])
         IN  [status |-> 200, error |-> "",
              distanceMeters |-> round(distance),
              distanceLabel |-> formatDistance(distance),
              presence |-> classifyDistance(distance, DefaultBleRange,
                                            DefaultMaxRange)]

Calculate ==
    /\ request.endpoint = "calculate"
    /\ response = NoResponse
    /\ response' = calculateHandler(request)
    /\ UNCHANGED <<channels, sets, nextSet, nextConn, streamState, closureSubs,
                   closureChannel, queue, clock, pushed, lastResp, handlers,
                   running, request>>

\* ------------------------------------------------------- classifyDistance
\* A call of classifyDistance(distanceMeters) with the default ranges, for a
\* whole number of metres.
MaxDistance == 5010
ClassifyRequests == [endpoint : {"classifyDistance"}, distanceMeters : 0..MaxDistance]

Classify ==
    /\ request.endpoint = "classifyDistance"
    /\ response = NoResponse
    /\ response' = [status |-> 200,
                    presence |-> classifyDistance(Metres(request.distanceMeters),
                                                  DefaultBleRange, DefaultMaxRange)]
    /\ UNCHANGED <<channels, sets, nextSet, nextConn, streamState, closureSubs,
                   closureChannel, queue, clock, pushed, lastResp, handlers,
                   running, request>>

\* ------------------------------------------------------- POST /nearby
MaxCandidates == 3
DefaultMaxRadius == 5000

\* Candidates on the meridian of myPosition, 0 m, 1111.949 m, 5559.746 m and
\* 11119.493 m north of it.
MyPosition == GeoPoint(Given(5200), Given(1300))
Candidates ==
    {[profileId |-> "here", location |-> GeoPoint(Given(5200), Given(1300))],
     [profileId |-> "close", location |-> GeoPoint(Given(5201), Given(1300))],
     [profileId |-> "medium", location |-> GeoPoint(Given(5205), Given(1300))],
     [profileId |-> "far", location |-> GeoPoint(Given(5210), Given(1300))]}

CandidateLists ==
    UNION {[1..n -> Candidates] : n \in 0..MaxCandidates}

Radii == {Omitted, Given(0), Given(1112), Given(11119)}

NearbyRequests ==
    [endpoint : {"nearby"},
     myPosition : {Omitted, Given(GeoPoint(Given(0), Given(1300))),
                   Given(MyPosition)},
     candidates : {Omitted} \cup {Given(l) : l \in CandidateLists},
     maxRadiusMeters : Radii]

radiusOf(maxRadiusMeters) ==
    IF maxRadiusMeters = Omitted THEN DefaultMaxRadius ELSE maxRadiusMeters[1]

nearbyHandler(body) ==
    IF ~hasLatLng(body.myPosition)
    THEN [status |-> 400, error |-> "myPosition must have lat and lng",
          nearby |-> <<>>, count |-> 0, totalCandidates |-> 0,
          maxRadiusMeters |-> 0]
    ELSE IF body.candidates = Omitted
    THEN [status |-> 400, error |-> "candidates must be an array",
          nearby |-> <<>>, count |-> 0, totalCandidates |-> 0,
          maxRadiusMeters |-> 0]
    ELSE LET nearby == findNearby(body.myPosition[1], body.candidates[1],
                                  radiusOf(body.maxRadiusMeters), DefaultBleRange)
         IN  [status |-> 200, error |-> "", nearby |-> nearby,
              count |-> Len(nearby),
              totalCandidates |-> Len(body.candidates[1]),
              maxRadiusMeters |-> radiusOf(body.maxRadiusMeters)]

Nearby ==
    /\ request.endpoint = "nearby"
    /\ response = NoResponse
    /\ response' = nearbyHandler(request)
    /\ UNCHANGED <<channels, sets, nextSet, nextConn, streamState, closureSubs,
                   closureChannel, queue, clock, pushed, lastResp, handlers,
                   running, request>>

\* ------------------------------------------------------- stateless specification
\* The stateless endpoints: a run answers one request, drawn from the bounded
\* sets of requests; no call reads or writes anything a later call sees.
Requests ==
    CalculateRequests \cup NearbyRequests \cup ConsentRequests \cup ClassifyRequests

InitStateless ==
    /\ InitLayer
    /\ request \in Requests
    /\ response = NoResponse

NextStateless ==
    \/ Calculate
    \/ Nearby
    \/ Consent
    \/ Classify

SpecStateless == InitStateless /\ [][NextStateless]_vars

\* ------------------------------------------------------- payload specification
\* The same handlers driven with publishes on one channel whose profileId,
\* location and metadata all vary, so that what a subscriber receives can be
\* compared with what the publisher sent.
PayloadChannel == "c1"
PayloadProfileIds == {"p1", "p2"}
PayloadLocations == {Location(52, 13), Location(48, 2)}
PayloadMetadatas == {"none", "m1"}

PayloadBodies ==
    [channelId : {PayloadChannel}, profileId : PayloadProfileIds,
     location : PayloadLocations, metadata : PayloadMetadatas]

NextPayload ==
    \/ \E body \in PayloadBodies : Broadcast(body)
    \/ Stream(PayloadChannel)
    \/ \E c \in Controllers, reason \in Reasons : Cancel(c, reason)
    \/ Channels

SpecPayload == Init /\ [][NextPayload]_vars

\* ===================================================================
\* Vocabulary of the claims
\* ===================================================================
\* A connection is Open from its attachment until its stream is cancelled.
Open(c) == streamState[c] = "readable"
OpenOn(channelId) == {c \in Controllers : Open(c) /\ closureChannel[c] = channelId}

\* The members of the Set registered under channelId (none when absent).
Registered(chs, hp, channelId) ==
    IF MapHas(chs, channelId) THEN SetMembers(hp[MapGet(chs, channelId)]) ELSE {}

\* The body passes both checks of the broadcast handler.
Accepted(body) == channelAndProfilePresent(body) /\ locationHasLatLng(body)

\* A required field of the body is missing.
MissingField(body) ==
    body.channelId = "" \/ body.profileId = "" \/ body.location = NoLocation

LastChunk(q, c) == q[c][Len(q[c])]

\* The position chunk of the event a publish of `body` builds at instant ts.
IsPositionOf(chunk, body, ts) ==
    /\ chunk.event = "position"
    /\ chunk.profileId = body.profileId
    /\ chunk.location = body.location
    /\ chunk.metadata = body.metadata
    /\ chunk.timestamp = ts

\* A step that opens or cancels no stream: every Broadcast step is one.
BroadcastStep == nextConn' = nextConn /\ streamState' = streamState

\* ===================================================================
\* Claims
\* ===================================================================

\* C1: after any sequence of subscribe, publish and cancel operations no
\* registered channel has an empty subscriber set, so every channel the
\* enumerator lists has subscriberCount >= 1.
\* Refuted by the code: a connection stays in its Set after its stream is
\* cancelled, and the publish that then removes it leaves the emptied Set
\* registered.
C1_NoEmptyChannel ==
    \A i \in 1..Len(channels) : SetSize(sets[channels[i].value]) >= 1

\* C2: a publish the handler accepts, on a channel with N Open connections,
\* returns subscriberCount = N, and each of the N connections has received
\* exactly one position chunk of that event.
\* Refuted by the code: the count is the size of the Set, which still holds
\* the connections cancelled since the last publish.
C2_CountIsOpenAndEachReceivesOne ==
    lastResp.published =>
        /\ lastResp.subscriberCount = Cardinality(OpenOn(lastResp.channelId))
        /\ \A c \in OpenOn(lastResp.channelId) :
              Cardinality({i \in 1..Len(queue[c]) :
                              /\ queue[c][i].event = "position"
                              /\ queue[c][i].timestamp = clock - 1}) = 1

\* C3: the step that cancels a connection removes it from the Set registered
\* under its channel, and if it was the only member the channel is no longer
\* registered (the enumerator no longer lists it).
\* Refuted by the code: cancel deletes its argument, the consumer's reason,
\* from the Set, and the controller stays.
C3_CancelRemovesConnection ==
    [][\A c \in Controllers, reason \in Reasons :
          Cancel(c, reason) =>
              /\ Ctl(c) \notin Registered(channels', sets', closureChannel[c])
              /\ (Registered(channels, sets, closureChannel[c]) = {Ctl(c)}
                    => ~MapHas(channels', closureChannel[c]))]_vars

\* C4: an accepted publish to a channel id whose subscriber set is absent or
\* empty returns 200, published: true, subscriberCount 0, enqueues nothing
\* and leaves the registry as it was (no entry is created).
C4_PublishToEmptyIsNoOp ==
    [][BroadcastStep =>
        \A body \in Bodies :
          (/\ Accepted(body)
           /\ Registered(channels, sets, body.channelId) = {}
           /\ Broadcast(body)) =>
              /\ lastResp' = Resp(200, "", TRUE, body.channelId, 0, <<>>, 0)
              /\ UNCHANGED <<channels, sets, queue>>]_vars

\* An accepted publish returned 0 for a channel that is not registered, while
\* another channel is.
C4_Witness ==
    /\ lastResp.published
    /\ lastResp.subscriberCount = 0
    /\ ~MapHas(channels, lastResp.channelId)
    /\ Len(channels) >= 1

\* C5: in an accepted publish every member of the channel's Set at dispatch
\* whose push fails is no longer a member after the publish, and every member
\* whose push does not fail has the event's position chunk appended to its
\* stream, wherever the failing members stand in the iteration order.
C5_FailureDoesNotAbortFanOut ==
    [][BroadcastStep =>
        \A body \in Bodies :
          (Accepted(body) /\ Broadcast(body)) =>
              \A m \in Registered(channels, sets, body.channelId) :
                 IF enqueueThrows(m.id)
                 THEN /\ m \notin Registered(channels', sets', body.channelId)
                      /\ queue'[m.id] = queue[m.id]
                 ELSE /\ m \in Registered(channels', sets', body.channelId)
                      /\ Len(queue'[m.id]) = Len(queue[m.id]) + 1
                      /\ IsPositionOf(LastChunk(queue', m.id), body, clock)]_vars

\* A publish has just removed a failing member that stood before a member
\* that received the event.
C5_Witness ==
    /\ lastResp.published
    /\ \E dead, live \in Controllers :
          /\ dead < live
          /\ closureChannel[dead] = lastResp.channelId
          /\ closureChannel[live] = lastResp.channelId
          /\ ~Open(dead) /\ Open(live)
          /\ Ctl(dead) \notin Registered(channels, sets, lastResp.channelId)
          /\ Ctl(live) \in Registered(channels, sets, lastResp.channelId)
          /\ lastResp.subscriberCount
               > Cardinality(Registered(channels, sets, lastResp.channelId))
          /\ LastChunk(queue, live).event = "position"
          /\ LastChunk(queue, live).timestamp = clock - 1

\* C6: the subscriberCount an accepted publish returns is the size of the
\* channel's Set before the fan-out (0 when the channel is absent): members
\* removed by this publish are counted.
C6_CountIsSizeBeforeFanOut ==
    [][BroadcastStep =>
        \A body \in Bodies :
          (Accepted(body) /\ Broadcast(body)) =>
              /\ lastResp'.status = 200
              /\ lastResp'.subscriberCount
                   = Cardinality(Registered(channels, sets, body.channelId))]_vars

\* A publish returned a count larger than the set it left behind.
C6_Witness ==
    /\ lastResp.published
    /\ MapHas(channels, lastResp.channelId)
    /\ lastResp.subscriberCount
         > Cardinality(Registered(channels, sets, lastResp.channelId))

\* C7: a publish whose channelId, profileId or location is missing is answered
\* 400 and changes neither the registry nor any stream.
C7_InvalidPublishChangesNothing ==
    [][BroadcastStep =>
        \A body \in Bodies :
          (MissingField(body) /\ Broadcast(body)) =>
              /\ lastResp'.status = 400
              /\ ~lastResp'.published
              /\ UNCHANGED <<channels, sets, nextSet, nextConn, streamState,
                             closureSubs, closureChannel, queue, clock>>]_vars

\* A publish without channelId or profileId was rejected while a connection
\* was open.
C7_Witness ==
    /\ lastResp.status = 400
    /\ lastResp.error = "channelId and profileId are required"
    /\ \E c \in Controllers : Open(c)

\* C8: every publish with a channelId, a profileId and a location with numeric
\* lat and lng is answered 200, for every lat and lng of a range containing 0.
\* Refuted by the code: lat = 0 and lng = 0 are falsy and the handler answers
\* 400 "location must have lat and lng".
C8_NumericLocationAccepted ==
    [][BroadcastStep =>
        \A body \in Bodies :
          (~MissingField(body) /\ Broadcast(body)) =>
              /\ lastResp'.status = 200
              /\ lastResp'.published]_vars

\* C9: every connection's stream starts with exactly one connected chunk,
\* which carries the channel id the subscription was opened on and a
\* subscriberCount >= 1; every later chunk is a position chunk.
C9_WelcomeFirstAndOnce ==
    \A c \in Controllers :
        streamState[c] # "unborn" =>
            /\ Len(queue[c]) >= 1
            /\ queue[c][1].event = "connected"
            /\ queue[c][1].channelId = closureChannel[c]
            /\ queue[c][1].subscriberCount >= 1
            /\ \A i \in 2..Len(queue[c]) : queue[c][i].event = "position"

\* A connection has received its welcome chunk and then a position chunk.
C9_Witness ==
    \E c \in Controllers :
        /\ Len(queue[c]) >= 2
        /\ queue[c][1].event = "connected"
        /\ queue[c][2].event = "position"

\* C10: the subscriberCount of a welcome chunk is the number of Open
\* connections of the channel at attachment, the new one included.
\* Refuted by the code: the count is the size of the Set, which still holds
\* the connections cancelled since the last publish.
C10_WelcomeCountsOpen ==
    lastResp.stream # 0 =>
        queue[lastResp.stream][1].subscriberCount
            = Cardinality(OpenOn(closureChannel[lastResp.stream]))

\* C11: Detached is terminal: no step calls enqueue on a connection whose
\* stream has been cancelled or has rejected a push.
\* Refuted by the code: a cancelled connection stays in its Set (C3), so the
\* next publish on its channel calls enqueue on it once more.
C11_NoPushAfterDetach ==
    \A i \in 1..Len(pushed) : streamState[pushed[i]] = "readable"

\* C12: a step deletes a channel entry only if the Set registered under that
\* id is empty once the step's deletions are done, so no entry holding an
\* Open connection is deleted; a cancel on a channel whose Set still has
\* members leaves `channels` as it was.
C12_DeleteOnlyWhenEmpty ==
    [][/\ \A id \in ChannelIds :
             (MapHas(channels, id) /\ ~MapHas(channels', id)) =>
                 /\ SetSize(sets'[MapGet(channels, id)]) = 0
                 /\ \A c \in OpenOn(id) :
                       Ctl(c) \notin SetMembers(sets[MapGet(channels, id)])
       /\ \A c \in Controllers, reason \in Reasons :
             (/\ Cancel(c, reason)
              /\ SetSize(sets'[closureSubs[c]]) > 0)
                 => channels' = channels]_vars

\* A cancel has just left registered a channel that holds an Open connection.
C12_Witness ==
    /\ lastResp = NoResp
    /\ \E gone, open \in Controllers :
          /\ streamState[gone] = "closed"
          /\ Open(open)
          /\ closureChannel[gone] = closureChannel[open]
          /\ Ctl(open) \in Registered(channels, sets, closureChannel[open])

\* C13: the cleanup of a connection takes effect once, at its first trigger:
\* no step changes whether an already Detached connection is a member of
\* its Set.
\* Refuted by the code: cancel, the first trigger, removes nothing (C3); the
\* member is removed by the second trigger, the failing push of a later
\* publish, and the channel is removed by neither.
C13_DetachedCleanupOnce ==
    [][\A c \in Controllers :
          streamState[c] = "closed" =>
              (Ctl(c) \in SetMembers(sets[closureSubs[c]])
                 <=> Ctl(c) \in SetMembers(sets'[closureSubs[c]]))]_vars

\* C14: within one publish enqueue is called at most once on a connection,
\* also when other members are deleted during the iteration.
C14_PushedAtMostOnce ==
    \A i, j \in 1..Len(pushed) : pushed[i] = pushed[j] => i = j

\* A publish pushed to an Open member and then deleted a dead one.
C14_Witness ==
    /\ lastResp.published
    /\ Len(pushed) >= 2
    /\ Open(pushed[1])
    /\ ~Open(pushed[2])
    /\ Ctl(pushed[2]) \notin Registered(channels, sets, lastResp.channelId)

\* C15: when an accepted publish returns, enqueue has been called on exactly
\* the members the channel's Set had at the lookup, as many times as the
\* subscriberCount it returns, and no other connection has received a chunk.
C15_PushAttemptedToEveryMember ==
    [][BroadcastStep =>
        \A body \in Bodies :
          (Accepted(body) /\ Broadcast(body)) =>
              /\ {Ctl(pushed'[i]) : i \in 1..Len(pushed')}
                   = Registered(channels, sets, body.channelId)
              /\ Len(pushed') = lastResp'.subscriberCount
              /\ \A c \in Controllers :
                    Ctl(c) \notin Registered(channels, sets, body.channelId)
                        => queue'[c] = queue[c]]_vars

\* A publish called enqueue on two members and returned 2.
C15_Witness ==
    /\ lastResp.published
    /\ Len(pushed) >= 2
    /\ lastResp.subscriberCount = Len(pushed)

\* C16: a subscribe answers 200 with the new stream; the Set registered under
\* its channel id afterwards has the members it had before (none when the
\* channel was absent) and the new connection; every other channel is
\* registered as before with the same members.
C16_SubscribeAddsExactlyOne ==
    [][\A ch \in ChannelIds :
          Stream(ch) =>
              /\ lastResp'.status = 200
              /\ lastResp'.stream = nextConn + 1
              /\ MapHas(channels', ch)
              /\ Registered(channels', sets', ch)
                   = Registered(channels, sets, ch) \cup {Ctl(nextConn + 1)}
              /\ Ctl(nextConn + 1) \notin Registered(channels, sets, ch)
              /\ \A other \in ChannelIds \ {ch} :
                    /\ MapHas(channels', other) <=> MapHas(channels, other)
                    /\ Registered(channels', sets', other)
                         = Registered(channels, sets, other)]_vars

\* A subscribe has just joined a channel that already had a member, while
\* another subscribe had created the channel.
C16_Witness ==
    /\ lastResp.stream # 0
    /\ Cardinality(Registered(channels, sets, closureChannel[lastResp.stream])) >= 2

\* C17: the enumerator answers 200 with one item per registered channel id,
\* each with the current size of its Set, total is the number of items, and
\* the call changes nothing but the response.
C17_EnumeratorIsPureSnapshot ==
    [][Channels =>
        LET list == lastResp'.channels IN
        /\ lastResp'.status = 200
        /\ lastResp'.total = Len(list)
        /\ Len(list) = Cardinality({id \in ChannelIds : MapHas(channels, id)})
        /\ \A i \in 1..Len(list) : MapHas(channels, list[i].channelId)
        /\ \A id \in ChannelIds :
              MapHas(channels, id) =>
                  /\ Cardinality({i \in 1..Len(list) : list[i].channelId = id}) = 1
                  /\ \A i \in 1..Len(list) :
                        list[i].channelId = id =>
                            list[i].subscriberCount
                                = Cardinality(Registered(channels, sets, id))
        /\ UNCHANGED <<channels, sets, nextSet, nextConn, streamState,
                       closureSubs, closureChannel, queue, clock>>]_vars

\* The enumerator has just listed two channels.
C17_Witness ==
    /\ lastResp.status = 200
    /\ lastResp.total = 2
    /\ Len(lastResp.channels) = 2

\* C18: events are not replayed: no stream holds a position chunk of an event
\* published before the stream was opened (the welcome chunk carries the
\* instant of the attachment, a position chunk the instant of its publish).
C18_NoReplay ==
    \A c \in Controllers :
        \A i \in 2..Len(queue[c]) :
            queue[c][i].timestamp >= queue[c][1].timestamp

\* A stream opened after a publish has received a later event.
C18_Witness ==
    \E c \in Controllers :
        /\ Len(queue[c]) >= 2
        /\ queue[c][1].timestamp >= 1
        /\ queue[c][2].event = "position"

\* C19: every subscriber to which one publish delivers gets the same chunk:
\* a position event carrying the request's profileId, location and metadata
\* and the one timestamp of the publish, appended once to its stream.
C19_SamePayloadForAll ==
    [][\A body \in PayloadBodies :
          Broadcast(body) =>
              \A i \in 1..Len(pushed') :
                  Open(pushed'[i]) =>
                      /\ Len(queue'[pushed'[i]]) = Len(queue[pushed'[i]]) + 1
                      /\ IsPositionOf(LastChunk(queue', pushed'[i]), body, clock)
                      /\ \A j \in 1..Len(pushed') :
                            Open(pushed'[j]) =>
                                LastChunk(queue', pushed'[j])
                                    = LastChunk(queue', pushed'[i])]_vars

\* Two open subscribers hold the chunk of one publish that carried metadata.
C19_Witness ==
    /\ lastResp.published
    /\ Len(pushed) = 2
    /\ Open(pushed[1]) /\ Open(pushed[2])
    /\ LastChunk(queue, pushed[1]).event = "position"
    /\ LastChunk(queue, pushed[1]).metadata = "m1"
    /\ LastChunk(queue, pushed[1]).profileId = "p2"
    /\ LastChunk(queue, pushed[1]) = LastChunk(queue, pushed[2])

\* C20: a publish that passes validation answers 200 with published:true and
\* no error, whichever of its pushes throw.
C20_DeadSubscriberNotReported ==
    [][BroadcastStep =>
        \A body \in Bodies :
          (Accepted(body) /\ Broadcast(body)) =>
              /\ lastResp'.status = 200
              /\ lastResp'.published
              /\ lastResp'.error = ""]_vars

\* A publish whose pushes all failed was answered published:true.
C20_Witness ==
    /\ lastResp.status = 200
    /\ lastResp.published
    /\ Len(pushed) >= 2
    /\ \A i \in 1..Len(pushed) : ~Open(pushed[i])

\* C21: every publish request that has been received is eventually answered:
\* its handler reaches its return, whatever the Set holds.
C21_PublishTerminates ==
    \A h \in Handlers :
        (handlers[h].pc = "received") ~> (handlers[h].pc = "done")

\* A publish has returned after pushes to two members, one of them dead.
C21_Witness ==
    /\ \E h \in Handlers : handlers[h].pc = "done"
    /\ lastResp.published
    /\ Len(pushed) >= 2
    /\ \E i \in 1..Len(pushed) : ~Open(pushed[i])
    /\ \E i \in 1..Len(pushed) : Open(pushed[i])

\* C22: while a publish handler is between its lookup and its return, every
\* step is a step of that handler; and when it returns, its attempts are the
\* members the Set had at the lookup, as many as the count it returns, and
\* registry, Sets and streams are those of the entry state after one atomic
\* publish: the channels as they were, the Set without the members whose push
\* failed, the event appended once to every other member's stream.
C22_HandlersAreAtomic ==
    [][\A h \in Handlers :
          LET hd == handlers[h]
              e == hd.entry
          IN
          /\ hd.pc = "loop" => (LoopStep(h) \/ Respond(h))
          /\ Respond(h) =>
                /\ Len(hd.attempts) = hd.subscriberCount
                /\ channels' = e.channels
                /\ \A r \in SetRefs :
                      sets'[r] = IF r = hd.subs
                                 THEN SelectSeq(e.sets[r],
                                                LAMBDA m : ~enqueueThrows(m.id))
                                 ELSE e.sets[r]
                /\ \A c \in Controllers :
                      queue'[c] = IF /\ hd.subs # NoRef
                                     /\ Ctl(c) \in SetMembers(e.sets[hd.subs])
                                     /\ Open(c)
                                  THEN Append(e.queue[c], hd.encoded)
                                  ELSE e.queue[c]]_vars

\* A publish handler is in its loop, has pushed to one member, and another
\* publish request is waiting to run.
C22_Witness ==
    \E h, g \in Handlers :
        /\ handlers[h].pc = "loop"
        /\ Len(handlers[h].attempts) = 1
        /\ handlers[h].subscriberCount = 2
        /\ handlers[g].pc = "received"

\* Vocabulary of the stateless claims: the endpoint has answered.
Answered(endpoint) == request.endpoint = endpoint /\ response # NoResponse

\* C23: revoking any consent record answers 200 with a record whose revokedAt
\* is set and with valid:false, and validating the returned record answers
\* valid:false.
C23_RevocationAbsorbing ==
    (/\ Answered("consent")
     /\ request.action = "revoke"
     /\ request.consent # Omitted)
        => /\ response.status = 200
           /\ response.consent # Omitted
           /\ truthyString(response.consent[1].revokedAt)
           /\ response.valid = FALSE
           /\ ~isConsentValid(response.consent)
           /\ LET again == consentHandler([request EXCEPT
                                              !.action = "validate",
                                              !.consent = response.consent])
              IN  again.status = 200 /\ again.valid = FALSE

\* A consent that was valid and not revoked has been revoked.
C23_Witness ==
    /\ Answered("consent")
    /\ request.action = "revoke"
    /\ request.consent # Omitted
    /\ isConsentValid(request.consent)
    /\ response.status = 200

\* C24: validate answers valid exactly for a record that is not revoked and
\* has one of the two flags; create stores FALSE for an omitted flag and
\* answers valid = locationTracking OR bleDiscovery of the request.
C24_ValidIffNotRevokedAndFlag ==
    /\ (/\ Answered("consent")
        /\ request.action = "validate"
        /\ request.consent # Omitted)
           => response.valid =
                 (/\ request.consent[1].revokedAt = ""
                  /\ (request.consent[1].locationTracking
                        \/ request.consent[1].bleDiscovery))
    /\ (/\ Answered("consent")
        /\ request.action = "create"
        /\ request.profileId # "")
           => /\ response.consent[1].locationTracking
                    = (request.locationTracking = Given(TRUE))
              /\ response.consent[1].bleDiscovery
                    = (request.bleDiscovery = Given(TRUE))
              /\ response.consent[1].revokedAt = ""
              /\ response.valid = (\/ request.locationTracking = Given(TRUE)
                                   \/ request.bleDiscovery = Given(TRUE))

\* A create without either flag has answered valid:false.
C24_Witness ==
    /\ Answered("consent")
    /\ request.action = "create"
    /\ request.profileId # ""
    /\ request.locationTracking = Omitted
    /\ request.bleDiscovery = Omitted
    /\ response.status = 200
    /\ response.valid = FALSE

\* C25: the consent endpoint answers 400 for a create without profileId, a
\* validate or revoke without consent, and any other action; 200 otherwise.
C25_ConsentStatus ==
    Answered("consent") =>
        response.status =
            IF \/ request.action = "create" /\ request.profileId = ""
               \/ request.action \in {"validate", "revoke"}
                    /\ request.consent = Omitted
               \/ request.action \notin {"create", "validate", "revoke"}
            THEN 400 ELSE 200

\* A revoke without a consent object has been answered 400.
C25_Witness ==
    /\ Answered("consent")
    /\ request.action = "revoke"
    /\ request.consent = Omitted
    /\ response.status = 400

\* The number of records of candidate c in a findNearby result, and the
\* number of times c is in a list of candidates.
TimesIn(records, c) ==
    Cardinality({i \in 1..Len(records) :
                    /\ records[i].profileId = c.profileId
                    /\ records[i].location = c.location})
TimesGiven(candidates, c) ==
    Cardinality({i \in 1..Len(candidates) : candidates[i] = c})

\* C26: a nearby answer holds every candidate whose rounded distance from
\* myPosition is at most the radius, as often as it was given, and no other;
\* each record carries that rounded distance; the records are in
\* non-decreasing order of distanceMeters; count is their number and at most
\* totalCandidates; and no candidate is in the answer less often for a larger
\* radius.
C26_NearbyFiltersAndSorts ==
    (Answered("nearby") /\ response.status = 200) =>
        LET my == request.myPosition[1]
            given == request.candidates[1]
            r == radiusOf(request.maxRadiusMeters)
            nearby == response.nearby
        IN
        /\ \A c \in Candidates :
              TimesIn(nearby, c) =
                 IF round(calculateDistance(my, c.location)) <= r
                 THEN TimesGiven(given, c) ELSE 0
        /\ \A i \in 1..Len(nearby) :
              /\ \E c \in Candidates : TimesIn(<<nearby[i]>>, c) = 1
              /\ nearby[i].distanceMeters
                    = round(calculateDistance(my, nearby[i].location))
        /\ \A i, j \in 1..Len(nearby) :
              i < j => nearby[i].distanceMeters <= nearby[j].distanceMeters
        /\ response.count = Len(nearby)
        /\ response.totalCandidates = Len(given)
        /\ response.count <= response.totalCandidates
        /\ \A r2 \in Radii :
              radiusOf(r2) >= r =>
                 \A c \in Candidates :
                    TimesIn(nearby, c)
                       <= TimesIn(nearbyHandler([request EXCEPT
                                     !.maxRadiusMeters = r2]).nearby, c)

\* Three candidates were given from far to near; the answer leaves one out
\* and holds the other two in the opposite order.
C26_Witness ==
    /\ Answered("nearby")
    /\ response.status = 200
    /\ response.totalCandidates = 3
    /\ response.count = 2
    /\ request.candidates[1][2].profileId = response.nearby[2].profileId
    /\ request.candidates[1][3].profileId = response.nearby[1].profileId
    /\ response.nearby[1].distanceMeters < response.nearby[2].distanceMeters

\* The four coordinates of a calculate request are present.
AllCoordinatesGiven ==
    /\ request.from # Omitted
    /\ request.to # Omitted
    /\ request.from[1].lat # Omitted /\ request.from[1].lng # Omitted
    /\ request.to[1].lat # Omitted /\ request.to[1].lng # Omitted

\* C27: a calculate request with from = to, both coordinates numbers, is
\* answered 200 with distanceMeters 0 and status nearby; a 400 is answered
\* only when one of the four coordinates is missing.
C27_SamePointIsZero ==
    Answered("calculate") =>
        /\ (AllCoordinatesGiven /\ request.from = request.to)
              => /\ response.status = 200
                 /\ response.distanceMeters = 0
                 /\ response.presence = "nearby"
        /\ response.status = 400 => ~AllCoordinatesGiven

\* C28: classifyDistance with the default ranges returns nearby up to 30 m,
\* in_range above 30 m up to 5000 m, out_of_range above 5000 m, and never
\* unknown.
C28_ClassifyThresholds ==
    Answered("classifyDistance") =>
        /\ response.presence =
              IF request.distanceMeters <= 30 THEN "nearby"
              ELSE IF request.distanceMeters <= 5000 THEN "in_range"
              ELSE "out_of_range"
        /\ response.presence # "unknown"

\* The distance 5000 m has been classified in_range.
C28_Witness ==
    /\ Answered("classifyDistance")
    /\ request.distanceMeters = 5000
    /\ response.presence = "in_range"

\* C29: every open connection is a member of the Set registered under its
\* channel id, in every reachable state.
C29_OpenIsRegistered ==
    \A c \in Controllers :
        Open(c) =>
            /\ MapHas(channels, closureChannel[c])
            /\ closureSubs[c] = MapGet(channels, closureChannel[c])
            /\ Ctl(c) \in Registered(channels, sets, closureChannel[c])

\* An open connection is still registered after a publish on its channel
\* whose push to another member failed, and has received the event.
C29_Witness ==
    \E c, d \in Controllers :
        /\ Open(c) /\ streamState[d] = "closed"
        /\ closureChannel[c] = closureChannel[d]
        /\ Ctl(c) \in Registered(channels, sets, closureChannel[c])
        /\ Ctl(d) \notin Registered(channels, sets, closureChannel[c])
        /\ Len(queue[c]) >= 2

\* C30: a publish to a channel calls enqueue only on connections that
\* subscribed to that channel, adds nothing to the stream of any other
\* connection and leaves every other channel registered as it was with the
\* same members; a cancel of a connection leaves every channel but its own
\* registered as it was with the same members.
C30_ChannelsIsolated ==
    [][/\ BroadcastStep =>
            \A body \in Bodies :
               (Accepted(body) /\ Broadcast(body)) =>
                  /\ \A i \in 1..Len(pushed') :
                        closureChannel[pushed'[i]] = body.channelId
                  /\ \A c \in Controllers :
                        closureChannel[c] # body.channelId => queue'[c] = queue[c]
                  /\ \A other \in ChannelIds \ {body.channelId} :
                        /\ MapHas(channels', other) <=> MapHas(channels, other)
                        /\ Registered(channels', sets', other)
                             = Registered(channels, sets, other)
       /\ \A c \in Controllers, reason \in Reasons :
             Cancel(c, reason) =>
                \A other \in ChannelIds \ {closureChannel[c]} :
                   /\ MapHas(channels', other) <=> MapHas(channels, other)
                   /\ Registered(channels', sets', other)
                        = Registered(channels, sets, other)]_vars

\* A publish has delivered on its channel while a connection of the other
\* channel is open and holds its welcome chunk only.
C30_Witness ==
    /\ lastResp.published
    /\ Len(pushed) >= 1
    /\ Open(pushed[1])
    /\ \E d \in Controllers :
          /\ Open(d)
          /\ closureChannel[d] # lastResp.channelId
          /\ Len(queue[d]) = 1

\* C31: on every stream the position chunks are in the order of their
\* publishes: a chunk of an earlier publish (smaller instant) is never behind
\* a chunk of a later one, and no publish has two chunks on one stream.
C31_OrderFollowsPublishOrder ==
    \A c \in Controllers :
        \A i, j \in 1..Len(queue[c]) :
            (/\ i < j
             /\ queue[c][i].event = "position"
             /\ queue[c][j].event = "position")
                => queue[c][i].timestamp < queue[c][j].timestamp

\* A stream holds the chunks of two publishes whose handlers have both
\* returned.
C31_Witness ==
    \E c \in Controllers :
        /\ Len(queue[c]) = 3
        /\ queue[c][2].event = "position"
        /\ queue[c][3].event = "position"
        /\ queue[c][2].profileId = queue[c][3].profileId
        /\ \A h \in Handlers : handlers[h].pc = "done"

\* C32: a publish that passes validation and none of whose pushes fails
\* leaves the registry as it was: the same entries of `channels`, the same
\* Sets with the same members in the same order.
C32_CleanPublishKeepsRegistry ==
    [][BroadcastStep =>
        \A body \in Bodies :
          (/\ Accepted(body)
           /\ Broadcast(body)
           /\ \A i \in 1..Len(pushed') : Open(pushed'[i]))
              => /\ channels' = channels
                 /\ sets' = sets
                 /\ nextSet' = nextSet]_vars

\* A publish has pushed to two members, both open and both still registered.
C32_Witness ==
    /\ lastResp.published
    /\ lastResp.subscriberCount = 2
    /\ Len(pushed) = 2
    /\ \A i \in 1..Len(pushed) :
          /\ Open(pushed[i])
          /\ Ctl(pushed[i]) \in Registered(channels, sets, lastResp.channelId)
          /\ LastChunk(queue, pushed[i]).event = "position"

====
